---- MODULE Spec2Model ----
(***************************************************************************)
(* SQLAlchemyModelFactory of py_yaml_fixtures/factories/sqlalchemy.py:     *)
(* create_or_update (reconcile), _get_existing (find), commit, and the     *)
(* session they drive.  One mapped class, User, with a unique column       *)
(* "email", a plain column "name", a to-one relationship "parent" and a    *)
(* to-many relationship "children".                                        *)
(*                                                                         *)
(* Values are integers: None is 0, instances are 1..MaxInst, the strings   *)
(* a fixture supplies are the numbers in Emails and Names, and List is a   *)
(* list of instances given for "children".                                 *)
(*                                                                         *)
(* The session is the one the factory is given: session.add tracks an      *)
(* instance, the query of line 88 runs with autoflush off and so sees the  *)
(* rows that a commit wrote and nothing that is only pending, and          *)
(* session.commit() writes everything the session tracks unless the unique *)
(* constraint of "email" rejects it.  The factory has no rollback, so a    *)
(* commit that raised ends the use of the session; the next thing that can *)
(* happen is a new factory on a new session (NewEngine).                   *)
(***************************************************************************)
EXTENDS Integers, FiniteSets, Sequences, TLC

\* ---- bounds ----------------------------------------------------------
MaxInst == 3
\* calls (reconcile, commit, new engine) in one run
MaxCalls == 5

\* ---- values ----------------------------------------------------------
None == 0
Insts == 1..MaxInst
Emails == {101}
Names == {201}
\* a collection of instances: not None, not a primitive, no __mapper__
List == 900
Keys == {"k1", "k2"}
ClassNames == {"User", "Ghost"}
Ids == ClassNames \X Keys

\* self.models: the registered model classes, by name
models == {"User"}

\* model_class.__mapper__.columns that a fixture fills, and the ones the
\* schema marks primary_key or unique
Columns == {"email", "name"}
UniqueColumns == {"email"}
Attrs == {"email", "name", "parent", "children"}

VARIABLES
    model_instances,  \* self.model_instances: class name -> (key -> instance)
    session,          \* instances the session tracks (pending or persistent)
    staged,           \* instances handed to session.add on this session
    attrs,            \* the loaded Python objects: instance -> attribute values
    rows,             \* durable storage: instance -> attribute values
    active,           \* FALSE once a commit failed (the session needs a rollback)
    ctor,             \* per identifier: how often model_class(**data) ran on this engine
    first,            \* per identifier: the instance first returned on this engine
    autoflush,        \* session.autoflush
    coercion,         \* the maybe_convert_values call: arguments and result
    memo,             \* the lru_cache of get_relationships, shared by all factories
    calls,            \* calls made so far
    last              \* the last call and how it ended

vars == <<model_instances, session, staged, attrs, rows, active, ctor, first,
          autoflush, coercion, memo, calls, last>>

\* ---- helpers ---------------------------------------------------------
Min(S) == CHOOSE x \in S : \A y \in S : x <= y

\* a function overridden / extended by another (dict.update)
Update(f, g) ==
    [k \in DOMAIN f \cup DOMAIN g |-> IF k \in DOMAIN g THEN g[k] ELSE f[k]]

Blank == [a \in Attrs |-> None]

\* the (type, key) -> Instance entries of the cache, without the buckets
CacheEntries(mi) ==
    {<<c, k, mi[c][k]>> : <<c, k>> \in
        UNION {{<<c2, k2>> : k2 \in DOMAIN mi[c2]} : c2 \in DOMAIN mi}}

\* self.model_instances[class_name].get(key)   (line 58)
CacheGet(mi, class_name, key) ==
    IF class_name \in DOMAIN mi /\ key \in DOMAIN mi[class_name]
    THEN mi[class_name][key] ELSE None

\* the defaultdict makes the bucket on the first subscript   (lines 36, 58)
Touch(mi, class_name) ==
    IF class_name \in DOMAIN mi THEN mi
    ELSE Update(mi, [c \in {class_name} |-> [k \in {} |-> None]])

\* line 52 left out
CachePut_NoStore(mi, class_name, key, inst) == Touch(mi, class_name)

\* line 52 storing the instance under every key of the bucket
CachePut_EveryKey(mi, class_name, key, inst) ==
    LET b == Touch(mi, class_name)
    IN [b EXCEPT ![class_name] = Update(@, [k \in Keys |-> inst])]

\* self.model_instances[class_name][key] = instance   (line 52)
CachePut(mi, class_name, key, inst) ==
    LET b == Touch(mi, class_name)
    IN [b EXCEPT ![class_name] = Update(@, [k \in {key} |-> inst])]

\* get_relationships(class_name): the relationship-valued attributes; "proxy"
\* is an association proxy (line 97), which no record of a reconcile run sets
get_relationships(class_name) ==
    IF class_name = "User" THEN {"parent", "children", "proxy"} ELSE {}

\* the type test always failing
IsInstance_Never(inst, class_name) == FALSE

\* isinstance(instance, model_class): every object of the model is a User
IsInstance(inst, class_name) == inst \in Insts /\ class_name = "User"

\* hasattr(v, '__mapper__')
HasMapper(v) == v \in Insts

\* isinstance(v, (bool, int, str, float))
IsPrimitive(v) == v \in Emails \cup Names

\* getattr(v, pk.name) is not None: the key is assigned when the row is written
HasPk(v) == v \in DOMAIN rows

\* ---- _get_existing (lines 55-88) --------------------------------------
\* lines 63-66 left out: no key filter
KeyFilter_None(data) == {}

\* lines 63-66: the primary-key / unique columns present in data
KeyFilter(data) == {c \in Columns : c \in DOMAIN data /\ c \in UniqueColumns}

\* lines 70-73: the fallback filter
FallbackFilter(class_name, data) ==
    {k \in DOMAIN data :
        \/ (k \in get_relationships(class_name) /\ HasMapper(data[k]))
        \/ data[k] = None
        \/ IsPrimitive(data[k])}

\* lines 63-73
filter_kwargs(class_name, data) ==
    IF KeyFilter(data) # {} THEN KeyFilter(data)
    ELSE FallbackFilter(class_name, data)

\* the query seeing what is pending in the session as well
Matching_Pending(fk, data) ==
    LET r == Update(rows, [x \in session |-> attrs[x]])
    IN {x \in DOMAIN r : \A k \in fk : r[x][k] = data[k]}

\* line 88: the rows the filter selects; autoflush is off, so only what a
\* commit wrote is seen
Matching(fk, data) ==
    {x \in DOMAIN rows : \A k \in fk : rows[x][k] = data[k]}

\* line 59-60 left out: the cache is never trusted
CacheTier_Skip(class_name, key) == None

\* line 59: the cache tier
CacheTier(class_name, key) ==
    LET instance == CacheGet(model_instances, class_name, key)
    IN IF IsInstance(instance, class_name) /\ instance \in session
       THEN instance ELSE None

\* how _get_existing ends: the outcome, the instance returned, whether the
\* backend was queried, and the filter that was built
Found(outcome, inst, queried, fk, tier) ==
    [outcome |-> outcome, inst |-> inst, queried |-> queried,
     filter |-> fk, tier |-> tier]

\* lines 83-85 left out: an unresolved primary key does not stop the query
FilterLoop_NoPkCheck(class_name, fk, data) ==
    LET rels == fk \cap get_relationships(class_name)
    IN IF \E k \in rels : ~HasMapper(data[k]) THEN "AttributeError" ELSE "query"

\* lines 77-85: the loop over the filter; "parent" is the one relationship
\* attribute that can be in it, so the order of the record does not matter
FilterLoop(class_name, fk, data) ==
    LET rels == fk \cap get_relationships(class_name)
    IN IF \E k \in rels : ~HasMapper(data[k]) THEN "AttributeError"
       ELSE IF \E k \in rels : ~HasPk(data[k]) THEN "indeterminate"
       ELSE "query"

\* Query.first() in place of one_or_none(): one of several matches is picked
one_or_none_First(m, fk, tier) ==
    IF m = {} THEN Found("ok", None, TRUE, fk, tier)
    ELSE Found("ok", CHOOSE x \in m : TRUE, TRUE, fk, tier)

\* line 88: Query.one_or_none()
one_or_none(m, fk, tier) ==
    IF Cardinality(m) > 1 THEN Found("MultipleResultsFound", None, TRUE, fk, tier)
    ELSE IF m = {} THEN Found("ok", None, TRUE, fk, tier)
    ELSE Found("ok", CHOOSE x \in m : TRUE, TRUE, fk, tier)

\* lines 74-75 left out: an empty filter is queried like any other
EmptyFilter_Never(fk) == FALSE

\* line 74: if not filter_kwargs
EmptyFilter(fk) == fk = {}

get_existing(class_name, key, data) ==
    IF class_name \notin models
    THEN Found("KeyError", None, FALSE, {}, "none")
    ELSE IF CacheTier(class_name, key) # None
    THEN Found("ok", CacheTier(class_name, key), FALSE, {}, "cache")
    ELSE LET fk == filter_kwargs(class_name, data)
             tier == IF KeyFilter(data) # {} THEN "key" ELSE "fallback"
             m == Matching(fk, data)
         IN IF EmptyFilter(fk) THEN Found("ok", None, FALSE, fk, "empty")
            ELSE IF FilterLoop(class_name, fk, data) = "AttributeError"
            THEN Found("AttributeError", None, FALSE, fk, tier)
            ELSE IF FilterLoop(class_name, fk, data) = "indeterminate"
            THEN Found("ok", None, FALSE, fk, tier)
            ELSE one_or_none(m, fk, tier)

\* the objects a query loads enter the session's identity map with the
\* stored values; an object already loaded keeps its values in memory
Loaded(m) == Update([x \in m \cap DOMAIN rows |-> rows[x]], attrs)

\* ---- the records a driver can supply ----------------------------------
\* a relationship value is what the loader resolved from the cache, or null
Refs == {e[3] : e \in CacheEntries(model_instances)}

\* the column values of a record: any subset of the columns, each with one
\* of its values (a name may be given as null)
ColumnRecords ==
    UNION {{d \in [S -> Emails \cup Names \cup {None}] :
               /\ "email" \in S => d["email"] \in Emails
               /\ "name" \in S => d["name"] \in Names \cup {None}} :
           S \in SUBSET Columns}

\* a record that gives nothing but a collection-valued reference
ListRecords == {[a \in {"children"} |-> List]}

Records ==
    ColumnRecords \cup ListRecords \cup
    {Update(d, [a \in {"parent"} |-> r]) : d \in ColumnRecords, r \in Refs \cup {None}}

NoData == [a \in {} |-> None]

GhostRecords == {NoData} \cup [{"name"} -> Names]

\* the session.no_autoflush context manager of line 87 leaving without the
\* finally: a query that raises leaves autoflush off
no_autoflush_exit_NoFinally(before, outcome) ==
    IF outcome = "ok" THEN before ELSE FALSE

\* leaving the with block of line 87, however the query ended:
\* session.autoflush gets the value it had before the block
no_autoflush_exit(before, outcome) == before

\* lines 87-88 as the events of one call: the block is entered (autoflush
\* off), the query runs, the block is left; no query, no block
no_autoflush_scope(queried, outcome) ==
    IF ~queried THEN <<>>
    ELSE <<"autoflush off", "query",
           IF no_autoflush_exit(autoflush, outcome) = autoflush
           THEN "autoflush restored" ELSE "autoflush left off">>

\* the record of a call: its arguments, how it ended, what it returned, the
\* cache entry of the identifier when it began, whether the backend was
\* queried, the filter and tier of _get_existing, and whether the call
\* repeats the identifier and record of the reconcile that returned just
\* before it ("again") or just before the commit that ended the engine
\* before this one ("reload")
Call(op, class_name, key, data, outcome, created, inst, queried, fk, tier) ==
    [op |-> op, class_name |-> class_name, key |-> key, data |-> data,
     outcome |-> outcome, created |-> created, inst |-> inst,
     cachedBefore |-> CacheGet(model_instances, class_name, key),
     queried |-> queried, filter |-> fk, tier |-> tier,
     scope |-> no_autoflush_scope(queried, outcome),
     repeats |-> IF /\ last.class_name = class_name /\ last.key = key
                    /\ last.data = data /\ last.outcome = "ok"
                 THEN (IF last.op = "reconcile" THEN "again"
                       ELSE IF last.op = "init" THEN "reload" ELSE "no")
                 ELSE "no"]

\* the record of a call that is no reconcile.  A commit that succeeds right
\* after a reconcile that returned keeps that reconcile's identifier, record,
\* instance and created flag, and so does the construction of a new engine right after
\* that commit: this is what was loaded and committed last
NoCall(op, outcome) ==
    LET keep == /\ outcome = "ok" /\ last.outcome = "ok"
                /\ \/ op = "commit" /\ last.op = "reconcile"
                   \/ op = "init" /\ last.op = "commit"
    IN [op |-> op,
        class_name |-> IF keep THEN last.class_name ELSE "",
        key |-> IF keep THEN last.key ELSE "",
        data |-> IF keep THEN last.data ELSE NoData,
        inst |-> IF keep THEN last.inst ELSE None,
        created |-> IF keep THEN last.created ELSE FALSE,
        outcome |-> outcome,
        cachedBefore |-> None, queried |-> FALSE, filter |-> {}, tier |-> "none",
        scope |-> <<>>, repeats |-> "no"]

FirstCall ==
    [op |-> "init", class_name |-> "", key |-> "", data |-> NoData,
     inst |-> None, outcome |-> "ok", created |-> FALSE,
     cachedBefore |-> None, queried |-> FALSE, filter |-> {}, tier |-> "none",
     scope |-> <<>>, repeats |-> "no"]

\* the lru_cache before any call: no (factory, class name) pair is cached,
\* none was used, the set of the first pair was never computed
NoMemo == [lru |-> <<>>, used |-> 0, runs |-> 0]

\* no maybe_convert_values call is under way
NoCoercion ==
    [class_name |-> "", given |-> <<>>, data |-> <<>>, outcome |-> "none",
     rv |-> <<>>]

\* ---- __init__ (lines 19-38) -------------------------------------------
Init ==
    /\ model_instances = [c \in {} |-> None]
    /\ session = {}
    /\ staged = {}
    /\ attrs = [x \in {} |-> Blank]
    /\ rows = [x \in {} |-> Blank]
    /\ active = TRUE
    /\ ctor = [i \in Ids |-> 0]
    /\ first = [i \in Ids |-> None]
    /\ autoflush = TRUE
    /\ coercion = NoCoercion
    /\ memo = NoMemo
    /\ calls = 0
    /\ last = FirstCall

\* a new factory on a new session over the same database
NewEngine ==
    /\ last.op = "commit"
    /\ calls < MaxCalls
    /\ calls' = calls + 1
    /\ model_instances' = [c \in {} |-> None]
    /\ session' = {}
    /\ staged' = {}
    /\ attrs' = [x \in {} |-> Blank]
    /\ active' = TRUE
    /\ ctor' = [i \in Ids |-> 0]
    /\ first' = [i \in Ids |-> None]
    /\ autoflush' = TRUE
    /\ last' = NoCall("init", "ok")
    /\ UNCHANGED <<rows, coercion, memo>>

\* ---- create_or_update (lines 40-53) -----------------------------------
\* model_class() built without the record
Construct_Blank(data) == Blank

\* model_class(**data)   (line 45)
Construct(data) == Update(Blank, data)

\* the matched instance rebuilt from data: attributes not in data are reset
SetAttrs_Replace(old, data) == Update(Blank, data)

\* setattr(instance, attr, value) for every item of data   (lines 48-49)
SetAttrs(old, data) == Update(old, data)

FreeInsts == Insts \ (DOMAIN attrs \cup DOMAIN rows)

\* what a flush of the session would leave in the database
Flushed == Update(rows, [x \in session |-> attrs[x]])

\* the query flushing the session first, as it does without line 87
no_autoflush_Flush(queried) == IF queried THEN Flushed ELSE rows

\* line 87: the query runs with autoflush off, so it writes nothing
no_autoflush(queried) == rows

\* line 58 run before line 56: the bucket is made before the KeyError
RaisedCache_Touch(class_name, outcome) == Touch(model_instances, class_name)

\* _get_existing raised: nothing after line 41 runs: the cache gets at most
\* the bucket line 58 made
RaisedCache(class_name, outcome) ==
    IF outcome = "KeyError" THEN model_instances
    ELSE Touch(model_instances, class_name)

Raised(class_name, key, data, f) ==
    /\ model_instances' = RaisedCache(class_name, f.outcome)
    /\ session' = session \cup (IF f.queried THEN Matching(f.filter, data) ELSE {})
    /\ attrs' = IF f.queried THEN Loaded(Matching(f.filter, data)) ELSE attrs
    /\ last' = Call("reconcile", class_name, key, data, f.outcome, FALSE, None,
                    f.queried, f.filter, f.tier)
    /\ rows' = no_autoflush(f.queried)
    /\ UNCHANGED <<staged, active, ctor, first>>

\* lines 43-46: no instance was found
Created(class_name, key, data, f) ==
    /\ FreeInsts # {}
    /\ LET instance == Min(FreeInsts)
       IN /\ attrs' = Update(attrs, [x \in {instance} |-> Construct(data)])
          /\ session' = session \cup {instance}
          /\ staged' = staged \cup {instance}
          /\ model_instances' = CachePut(model_instances, class_name, key, instance)
          /\ ctor' = [ctor EXCEPT ![<<class_name, key>>] = @ + 1]
          /\ first' = [first EXCEPT ![<<class_name, key>>] = instance]
          /\ last' = Call("reconcile", class_name, key, data, "ok", TRUE, instance,
                          f.queried, f.filter, f.tier)
    /\ rows' = no_autoflush(f.queried)
    /\ UNCHANGED active

\* lines 47-49: an instance was found
Updated(class_name, key, data, f) ==
    LET instance == f.inst
        loaded == IF f.queried THEN Loaded({instance}) ELSE attrs
    IN /\ attrs' = [loaded EXCEPT ![instance] = SetAttrs(@, data)]
       /\ session' = session \cup {instance}
       /\ staged' = staged \cup {instance}
       /\ model_instances' = CachePut(model_instances, class_name, key, instance)
       /\ last' = Call("reconcile", class_name, key, data, "ok", FALSE, instance,
                       f.queried, f.filter, f.tier)
       /\ first' = [first EXCEPT ![<<class_name, key>>] =
                                   IF @ = None THEN instance ELSE @]
       /\ rows' = no_autoflush(f.queried)
       /\ UNCHANGED <<active, ctor>>

create_or_update(class_name, key, data) ==
    /\ active  \* no call on a session whose commit raised
    /\ calls < MaxCalls
    /\ calls' = calls + 1
    /\ UNCHANGED <<coercion, memo>>
    /\ LET f == get_existing(class_name, key, data)
       IN /\ autoflush' = IF f.queried
                          THEN no_autoflush_exit(autoflush, f.outcome)
                          ELSE autoflush
          /\ IF f.outcome # "ok" THEN Raised(class_name, key, data, f)
             ELSE IF f.inst = None THEN Created(class_name, key, data, f)
             ELSE Updated(class_name, key, data, f)

\* ---- commit (lines 130-131) -------------------------------------------
\* session.commit() writing nothing
Written_Nothing == rows

\* session.commit(): the flush of everything the session tracks
Written == Flushed

\* the unique constraint of the email column
UniqueOk(r) ==
    \A x, y \in DOMAIN r :
        (x # y /\ r[x].email # None) => r[x].email # r[y].email

commit ==
    /\ active
    /\ calls < MaxCalls
    /\ calls' = calls + 1
    /\ UNCHANGED <<coercion, memo>>
    /\ IF UniqueOk(Flushed)
       THEN /\ rows' = Written
            /\ last' = NoCall("commit", "ok")
            /\ UNCHANGED <<model_instances, session, staged, attrs, active, ctor,
                           first, autoflush>>
       ELSE \* the flush fails: the transaction is rolled back, the pending
            \* objects are expunged and the session waits for a rollback
            /\ active' = FALSE
            /\ session' = session \cap DOMAIN rows
            /\ attrs' = Update(attrs, [x \in session \cap DOMAIN rows |-> rows[x]])
            /\ last' = NoCall("commit", "IntegrityError")
            /\ UNCHANGED <<model_instances, staged, rows, ctor, first, autoflush>>

\* the driver reconciles a record of a registered class
Reconcile == \E k \in Keys, d \in Records : create_or_update("User", k, d)

\* the driver names a class that is not registered: line 56 raises before
\* the record is read
ReconcileUnknown == \E k \in Keys, d \in GhostRecords : create_or_update("Ghost", k, d)

Next == Reconcile \/ ReconcileUnknown \/ commit \/ NewEngine

Spec == Init /\ [][Next]_vars

TypeOK ==
    /\ session \subseteq Insts
    /\ staged \subseteq session \cup DOMAIN attrs
    /\ DOMAIN rows \subseteq Insts

\* ---- maybe_convert_values (lines 104-128) -----------------------------
\* A value is a record of a tag and a payload: a raw text is "str" with its
\* characters, an Identifier is "id" with its class name and key, a list of
\* Identifiers is "ids", null is "null"; the converted values are "inst",
\* "insts", "date", "time", "datetime" and "timedelta".  A mapping (dict) is
\* a sequence of <<attribute, value>> pairs in the order of the dict.
\* bound: attributes in one record
MaxAttrs == 2

Str(chars) == [t |-> "str", v |-> chars]
Null == [t |-> "null", v |-> <<>>]

\* what one conversion gives: an exception, or a value to store in rv
\* (store = FALSE: the branch assigns nothing and rv keeps the copied value)
Raise(e) == [err |-> e, store |-> FALSE, val |-> Null]
Store(x) == [err |-> "", store |-> TRUE, val |-> x]
Keep == [err |-> "", store |-> FALSE, val |-> Null]

Digits == {"0", "1", "2", "3", "4", "5", "6", "7", "8", "9"}
DigitVal(c) ==
    CASE c = "0" -> 0 [] c = "1" -> 1 [] c = "2" -> 2 [] c = "3" -> 3
      [] c = "4" -> 4 [] c = "5" -> 5 [] c = "6" -> 6 [] c = "7" -> 7
      [] c = "8" -> 8 [] c = "9" -> 9

\* str.split(sep) with a one-character separator
RECURSIVE Split(_, _)
Split(s, sep) ==
    IF \A i \in 1..Len(s) : s[i] # sep THEN <<s>>
    ELSE LET i == Min({j \in 1..Len(s) : s[j] = sep})
         IN <<SubSeq(s, 1, i - 1)>> \o Split(SubSeq(s, i + 1, Len(s)), sep)

\* str.strip() of blanks, which int() does to its argument
RECURSIVE Strip(_)
Strip(s) ==
    IF s = <<>> THEN s
    ELSE IF Head(s) = " " THEN Strip(Tail(s))
    ELSE IF s[Len(s)] = " " THEN Strip(SubSeq(s, 1, Len(s) - 1))
    ELSE s

AllDigits(s) == \A i \in 1..Len(s) : s[i] \in Digits

\* the number a string of digits writes
RECURSIVE Number(_)
Number(s) ==
    IF s = <<>> THEN 0
    ELSE Number(SubSeq(s, 1, Len(s) - 1)) * 10 + DigitVal(s[Len(s)])

\* int(x) is defined: digits, blanks around them allowed
IsInt(s) == Strip(s) # <<>> /\ AllDigits(Strip(s))
int(s) == Number(Strip(s))

\* float(x) is defined: digits with at most one point and one digit or more
IsFloat(s) ==
    LET p == Split(s, ".")
    IN /\ Len(p) <= 2
       /\ \A i \in 1..Len(p) : AllDigits(p[i])
       /\ \E i \in 1..Len(p) : p[i] # <<>>

\* float(x) as a decimal: num / 10^scale
float(s) ==
    LET p == Split(s, ".")
    IN IF Len(p) = 1 THEN [num |-> Number(p[1]), scale |-> 0]
       ELSE [num |-> Number(p[1] \o p[2]), scale |-> Len(p[2])]

\* datetime.time(hour, minute, second, microsecond): the arguments left out
\* are 0, a fifth one is no tzinfo, each has its range
TimeArgs(n) == [i \in 1..4 |-> IF i <= Len(n) THEN n[i] ELSE 0]
TimeInRange(a) == a[1] < 24 /\ a[2] < 60 /\ a[3] < 60 /\ a[4] < 1000000

\* line 122 with a component that is no integer read as 0
time_of_Lenient(value) ==
    IF value.t # "str" THEN Raise("AttributeError")
    ELSE LET parts == Split(value.v, ":")
             n == [i \in 1..Len(parts) |->
                      IF IsInt(parts[i]) THEN int(parts[i]) ELSE 0]
         IN IF Len(n) > 4 THEN Raise("TypeError")
            ELSE IF ~TimeInRange(TimeArgs(n)) THEN Raise("ValueError")
            ELSE Store([t |-> "time", v |-> TimeArgs(n)])

\* line 122: time(*[int(x) for x in value.split(':')])
time_of(value) ==
    IF value.t # "str" THEN Raise("AttributeError")
    ELSE LET parts == Split(value.v, ":")
         IN IF \E i \in 1..Len(parts) : ~IsInt(parts[i]) THEN Raise("ValueError")
            ELSE LET n == [i \in 1..Len(parts) |-> int(parts[i])]
                 IN IF Len(n) > 4 THEN Raise("TypeError")
                    ELSE IF ~TimeInRange(TimeArgs(n)) THEN Raise("ValueError")
                    ELSE Store([t |-> "time", v |-> TimeArgs(n)])

\* the keywords of datetime.timedelta
TimedeltaUnits ==
    {<<"d", "a", "y", "s">>, <<"h", "o", "u", "r", "s">>,
     <<"m", "i", "n", "u", "t", "e", "s">>, <<"s", "e", "c", "o", "n", "d", "s">>,
     <<"w", "e", "e", "k", "s">>,
     <<"m", "i", "l", "l", "i", "s", "e", "c", "o", "n", "d", "s">>,
     <<"m", "i", "c", "r", "o", "s", "e", "c", "o", "n", "d", "s">>}

\* lines 126-127: duration, unit = value.split(" ");
\* timedelta(**{unit: float(duration)})
timedelta_of(value) ==
    IF value.t # "str" THEN Raise("AttributeError")
    ELSE LET parts == Split(value.v, " ")
         IN IF Len(parts) # 2 THEN Raise("ValueError")
            ELSE IF ~IsFloat(parts[1]) THEN Raise("ValueError")
            ELSE IF parts[2] \notin TimedeltaUnits THEN Raise("TypeError")
            ELSE Store([t |-> "timedelta",
                        v |-> <<parts[2], float(parts[1]).num,
                                float(parts[1]).scale>>])

\* the default date factory: an ISO date YYYY-MM-DD
IsoDate(s) ==
    LET p == Split(s, "-")
    IN IF /\ Len(p) = 3 /\ \A i \in 1..3 : AllDigits(p[i])
          /\ Len(p[1]) = 4 /\ Len(p[2]) = 2 /\ Len(p[3]) = 2
          /\ Number(p[2]) \in 1..12 /\ Number(p[3]) \in 1..31
       THEN <<Number(p[1]), Number(p[2]), Number(p[3])>>
       ELSE <<>>

\* self.date_factory(value)   (line 120)
date_factory(value) ==
    IF value.t # "str" THEN Raise("TypeError")
    ELSE IF IsoDate(value.v) = <<>> THEN Raise("ValueError")
    ELSE Store([t |-> "date", v |-> IsoDate(value.v)])

\* self.datetime_factory(value)   (line 124): an ISO date, "T", HH:MM:SS
datetime_factory(value) ==
    IF value.t # "str" THEN Raise("TypeError")
    ELSE LET p == Split(value.v, "T")
         IN IF Len(p) # 2 \/ IsoDate(p[1]) = <<>> THEN Raise("ValueError")
            ELSE LET tm == time_of(Str(p[2]))
                 IN IF tm.err # "" \/ Len(Split(p[2], ":")) # 3
                    THEN Raise("ValueError")
                    ELSE Store([t |-> "datetime", v |-> IsoDate(p[1]) \o tm.val.v])

\* self.loader.convert_identifiers(value)   (line 114): an Identifier gives
\* the Instance the cache holds for it, a list of Identifiers the list of
\* their Instances
convert_identifiers(value) ==
    IF value.t = "id"
    THEN Store([t |-> "inst",
                v |-> <<CacheGet(model_instances, value.v[1], value.v[2])>>])
    ELSE IF value.t = "ids"
    THEN Store([t |-> "insts",
                v |-> [i \in 1..Len(value.v) |->
                         CacheGet(model_instances, value.v[i][1], value.v[i][2])]])
    ELSE Raise("TypeError")

\* the attributes getattr(model_class, col_name) finds on User   (line 112)
ModelAttrs ==
    {"email", "name", "parent", "children", "proxy", "score", "uid", "born",
     "at", "seen", "ttl"}

\* hasattr(col, 'type') and what col.type is: a hybrid property "score" has
\* no type; the association proxy "proxy" leads to a date column
ColType(col_name) ==
    CASE col_name = "uid" -> "UUID"
      [] col_name \in {"born", "proxy"} -> "date"
      [] col_name = "at" -> "time"
      [] col_name = "seen" -> "datetime"
      [] col_name = "ttl" -> "timedelta"
      [] col_name \in {"email", "name"} -> "str"
      [] OTHER -> "no type"

\* the tests of lines 117-125 made before the test of line 113
Branch_TypeFirst(class_name, col_name) ==
    IF ColType(col_name) \in {"UUID", "date", "time", "datetime", "timedelta"}
    THEN ColType(col_name)
    ELSE IF col_name \in get_relationships(class_name) THEN "relationship"
    ELSE IF ColType(col_name) = "no type" THEN "no type"
    ELSE "other"

\* lines 113-125: the branch of the if / elif chain that applies
Branch(class_name, col_name) ==
    IF col_name \in get_relationships(class_name) THEN "relationship"
    ELSE IF ColType(col_name) = "no type" THEN "no type"
    ELSE IF ColType(col_name) \in {"UUID", "date", "time", "datetime", "timedelta"}
    THEN ColType(col_name)
    ELSE "other"

\* lines 112-127 for one item of data
ConvertValue(class_name, col_name, value) ==
    IF col_name \notin ModelAttrs THEN Raise("AttributeError")
    ELSE LET b == Branch(class_name, col_name)
         IN CASE b = "relationship" -> convert_identifiers(value)
              [] b = "no type" -> Keep
              [] b = "UUID" -> Store(value)
              [] b = "date" -> date_factory(value)
              [] b = "time" -> time_of(value)
              [] b = "datetime" -> datetime_factory(value)
              [] b = "timedelta" -> timedelta_of(value)
              [] OTHER -> Keep

\* lines 111-128: the loop over data.items(); an exception ends it and
\* nothing is returned
RECURSIVE ConvertItems(_, _, _, _)
ConvertItems(class_name, data, i, rv) ==
    IF i > Len(data) THEN [outcome |-> "ok", rv |-> rv]
    ELSE LET r == ConvertValue(class_name, data[i][1], data[i][2])
         IN IF r.err # "" THEN [outcome |-> r.err, rv |-> <<>>]
            ELSE ConvertItems(class_name, data, i + 1,
                    IF r.store THEN [rv EXCEPT ![i] = <<data[i][1], r.val>>]
                    ELSE rv)

\* line 110 as rv = data: the assignments of the loop reach the caller's dict
copy_Alias(data, rv) == rv

\* line 110, rv = data.copy(): what the caller's dict holds after the loop
\* assigned to rv
copy(data, rv) == data

\* ---- the records a loader can pass to maybe_convert_values --------------
TimeTexts ==
    {<<"1", "3", ":", "0", "5", ":", "0", "0">>,
     <<"9", ":", "3", "0">>,
     <<"1", "3", ":", " ", "5">>,
     <<"1", "3", ":", "x">>,
     <<"1", "3", ":", "0", "5", ":">>,
     <<"2", "5", ":", "0", "0">>,
     <<"1", ":", "2", ":", "3", ":", "4", ":", "5">>,
     <<>>}

DurationTexts ==
    {<<"2", " ", "d", "a", "y", "s">>,
     <<"1", ".", "5", " ", "h", "o", "u", "r", "s">>,
     <<"3", " ", " ", "d", "a", "y", "s">>,
     <<"2", "d", "a", "y", "s">>,
     <<"2", " ", "d", "a", "y", "s", " ", "a", "g", "o">>,
     <<"x", " ", "d", "a", "y", "s">>,
     <<"2", " ", "y", "e", "a", "r", "s">>,
     <<>>}

DateTexts ==
    {<<"2", "0", "2", "4", "-", "0", "1", "-", "1", "5">>,
     <<"2", "0", "2", "4", "-", "1", "3", "-", "0", "1">>,
     <<"s", "o", "o", "n">>}

DatetimeTexts ==
    {<<"2", "0", "2", "4", "-", "0", "1", "-", "1", "5", "T",
       "1", "3", ":", "0", "5", ":", "0", "0">>,
     <<"n", "o", "w">>}

PlainTexts == {<<"3", "f", "a", "e">>}

\* the Identifiers the loader has reconciled before
KnownIds == {<<e[1], e[2]>> : e \in CacheEntries(model_instances)}

\* the (attribute, raw value) items a record can hold
Items ==
    {<<"at", Str(x)>> : x \in TimeTexts} \cup {<<"at", Null>>}
    \cup {<<"ttl", Str(x)>> : x \in DurationTexts}
    \cup {<<"born", Str(x)>> : x \in DateTexts}
    \cup {<<"seen", Str(x)>> : x \in DatetimeTexts}
    \cup {<<a, Str(x)>> : a \in {"uid", "name", "score", "bogus"}, x \in PlainTexts}
    \cup {<<a, [t |-> "id", v |-> i]>> : a \in {"parent", "proxy"}, i \in KnownIds}
    \cup {<<"children", [t |-> "ids", v |-> <<i>>]>> : i \in KnownIds}

\* the dicts of up to MaxAttrs items: no attribute twice
RawRecords ==
    UNION {{d \in [1..n -> Items] :
               \A i, j \in 1..n : i # j => d[i][1] # d[j][1]} : n \in 0..MaxAttrs}

\* the engine after reconcile(Identifier("User", "k1"), {}) on an empty
\* database, and a maybe_convert_values call about to be made
InitCoerce ==
    /\ model_instances = CachePut([c \in {} |-> None], "User", "k1", Min(Insts))
    /\ session = {Min(Insts)}
    /\ staged = {Min(Insts)}
    /\ attrs = [x \in {Min(Insts)} |-> Blank]
    /\ rows = [x \in {} |-> Blank]
    /\ active = TRUE
    /\ ctor = [i \in Ids |-> IF i = <<"User", "k1">> THEN 1 ELSE 0]
    /\ first = [i \in Ids |-> IF i = <<"User", "k1">> THEN Min(Insts) ELSE None]
    /\ autoflush = TRUE
    /\ memo = NoMemo
    /\ calls = 1
    /\ last = [FirstCall EXCEPT !.op = "reconcile", !.class_name = "User",
                               !.key = "k1", !.created = TRUE,
                               !.inst = Min(Insts), !.tier = "empty"]
    /\ \E c \in ClassNames, d \in RawRecords :
          coercion = [class_name |-> c, given |-> d, data |-> d,
                      outcome |-> "pending", rv |-> <<>>]

\* maybe_convert_values(identifier, data)
maybe_convert_values ==
    /\ coercion.outcome = "pending"
    /\ LET r == IF coercion.class_name \notin models
                THEN [outcome |-> "KeyError", rv |-> <<>>]
                ELSE ConvertItems(coercion.class_name, coercion.data, 1,
                                  coercion.data)
       IN coercion' = [coercion EXCEPT !.outcome = r.outcome, !.rv = r.rv,
                                       !.data = copy(coercion.data, r.rv)]
    /\ UNCHANGED <<model_instances, session, staged, attrs, rows, active, ctor,
                   first, autoflush, memo, calls, last>>

NextCoerce == maybe_convert_values

SpecCoerce == InitCoerce /\ [][NextCoerce]_vars

\* ---- @lru_cache() of get_relationships (line 90) ------------------------
\* functools.lru_cache() without arguments keeps the results of the 128
\* arguments used last.  The decorator is applied to the function in the
\* class body, so one cache serves every factory of the process and its
\* key is the pair (self, class_name).  The pairs are numbered in the order
\* of their first use; memo.lru holds the cached pairs, the one used longest
\* ago first; memo.runs counts how often the body (lines 92-102) ran for
\* pair 1, up to 2.
lru_maxsize == 128
\* bound: distinct (factory, class name) pairs in one run
MaxPairs == 129

\* a call of the decorated get_relationships: a hit makes the pair the most
\* recently used; a miss runs the body, stores the result and, the cache
\* being full, drops the pair used longest ago
lru_cache(mm, pair) ==
    IF \E i \in 1..Len(mm.lru) : mm.lru[i] = pair
    THEN [mm EXCEPT !.lru = SelectSeq(mm.lru, LAMBDA x : x # pair) \o <<pair>>]
    ELSE [lru |-> (IF Len(mm.lru) >= lru_maxsize THEN Tail(mm.lru) ELSE mm.lru)
                     \o <<pair>>,
          used |-> IF pair > mm.used THEN pair ELSE mm.used,
          runs |-> IF pair = 1 THEN Min({mm.runs + 1, 2}) ELSE mm.runs]

\* get_relationships is called for a pair not used before
CallNewPair ==
    /\ memo.used < MaxPairs
    /\ memo' = lru_cache(memo, memo.used + 1)
    /\ UNCHANGED <<model_instances, session, staged, attrs, rows, active, ctor,
                   first, autoflush, coercion, calls, last>>

\* get_relationships is called again for the first pair
CallFirstPair ==
    /\ memo.used >= 1
    /\ memo' = lru_cache(memo, 1)
    /\ UNCHANGED <<model_instances, session, staged, attrs, rows, active, ctor,
                   first, autoflush, coercion, calls, last>>

NextLru == CallNewPair \/ CallFirstPair

SpecLru == Init /\ [][NextLru]_vars

\* ---- what the claims read ---------------------------------------------
\* the last call was a reconcile that returned
Returned == last.op = "reconcile" /\ last.outcome = "ok"

\* the identifier of the last call
LastId == <<last.class_name, last.key>>

\* the step is a call (no stuttering)
Step == calls' = calls + 1

\* the step is a reconcile that follows a reconcile of the same identifier
SameIdAgain ==
    /\ Step
    /\ last.op = "reconcile" /\ last'.op = "reconcile"
    /\ last'.class_name = last.class_name
    /\ last'.key = last.key

\* ... with the same record
SameAgain == SameIdAgain /\ last'.data = last.data

\* the instance x has the values of the record d
Has(x, d) == \A a \in DOMAIN d : attrs[x][a] = d[a]

\* the committed row x agrees with the record d on the attributes in fk
RowAgrees(x, d, fk) == \A a \in fk : rows[x][a] = d[a]

\* C1 as written: of two reconciles in sequence with the same identifier and
\* record, the first one for that identifier on the engine (if it returns)
\* returns created = TRUE, the second returns created = FALSE and the same
\* Instance.
C1_Original ==
    [][(SameAgain /\ last.outcome = "ok" /\ last.cachedBefore = None)
         => /\ last.created
            /\ last'.outcome = "ok" /\ ~last'.created
            /\ last'.inst = last.inst]_vars

\* C1 amended: if reconcile(I, R) returns, reconcile(I, R) called next on the
\* same engine returns created = FALSE and the same Instance; and a first
\* reconcile of I that returns gives created = TRUE when no committed
\* Instance agrees with R on the attributes of the filter it built.
C1_Idempotent ==
    [][/\ (SameAgain /\ last.outcome = "ok")
          => /\ last'.outcome = "ok" /\ ~last'.created
             /\ last'.inst = last.inst
       /\ (/\ Step /\ last'.op = "reconcile" /\ last'.outcome = "ok"
           /\ last'.cachedBefore = None
           /\ \A x \in DOMAIN rows : ~RowAgrees(x, last'.data, last'.filter))
          => last'.created]_vars

\* I was created on this engine, reconciled again and served from the cache
C1_Witness ==
    /\ Returned /\ ~last.created
    /\ last.repeats = "again"
    /\ last.cachedBefore = last.inst
    /\ ctor[LastId] = 1
    /\ last.data # NoData
    /\ Has(last.inst, last.data)

C3_UpdateSemantics ==
    [][(SameIdAgain /\ last.outcome = "ok")
         => /\ last'.outcome = "ok" /\ ~last'.created
            /\ last'.inst = last.inst
            /\ \A a \in DOMAIN last'.data : attrs'[last.inst][a] = last'.data[a]
            /\ \A a \in Attrs \ DOMAIN last'.data :
                  attrs'[last.inst][a] = attrs[last.inst][a]
            /\ \A a \in DOMAIN last.data \ DOMAIN last'.data :
                  attrs'[last.inst][a] = last.data[a]]_vars

\* a second record was applied and an attribute it does not name kept a
\* value given before
C3_Witness ==
    /\ Returned /\ ~last.created /\ last.tier = "cache"
    /\ ctor[LastId] = 1
    /\ last.data # NoData
    /\ \E a \in Attrs \ DOMAIN last.data : attrs[last.inst][a] # None

\* C4: once a reconcile of I has returned on this engine, every later
\* reconcile of I, with any record, returns the Instance cached for I and
\* queries nothing, provided the session still tracks that Instance.
C4_CacheFirst ==
    [][(/\ Step /\ last'.op = "reconcile"
        /\ first[<<last'.class_name, last'.key>>] # None
        /\ first[<<last'.class_name, last'.key>>] \in session)
         => /\ last'.outcome = "ok"
            /\ last'.inst = CacheGet(model_instances, last'.class_name, last'.key)
            /\ last'.inst = first[<<last'.class_name, last'.key>>]
            /\ ~last'.queried]_vars

\* the cache served I although the record's filter selects another
\* committed Instance
C4_Witness ==
    /\ Returned /\ last.tier = "cache" /\ ~last.queried
    /\ \E x \in DOMAIN rows :
          /\ x # last.inst
          /\ "email" \in DOMAIN last.data
          /\ rows[x].email = last.data.email

\* the last call was a reconcile of a registered class whose record refers,
\* through the relationship attribute, to an Instance with no primary key
UnresolvedRef ==
    /\ last.op = "reconcile" /\ last.class_name \in models
    /\ "parent" \in DOMAIN last.data
    /\ last.data.parent \in Insts \ DOMAIN rows

C6_Original ==
    [][(/\ Step /\ last.op = "reconcile" /\ last'.op = "reconcile"
        /\ last.outcome = "ok"
        /\ last'.class_name = last.class_name
        /\ "email" \in DOMAIN last.data /\ "email" \in DOMAIN last'.data
        /\ last'.data.email = last.data.email)
         => /\ last'.outcome = "ok" /\ ~last'.created
            /\ last'.inst = last.inst]_vars

\* C6 amended: past the cache tier, a record with a unique attribute is
\* matched on exactly the unique attributes, against committed Instances:
\* if a committed Instance has the record's email, reconcile returns it with
\* created = FALSE and the record's values, whatever its other attributes
\* are; if none has, it returns created = TRUE.
C6_FilterTiering ==
    (/\ last.op = "reconcile" /\ last.class_name \in models
     /\ last.tier # "cache" /\ "email" \in DOMAIN last.data)
        => /\ last.filter = {"email"} /\ last.tier = "key"
           /\ last.outcome = "ok" /\ last.queried
           /\ \A x \in DOMAIN rows :
                 rows[x].email = last.data.email
                    => ~last.created /\ last.inst = x /\ Has(x, last.data)
           /\ (\A x \in DOMAIN rows : rows[x].email # last.data.email)
                 => last.created

\* the record's email selected a committed Instance with another name,
\* although another committed Instance has the record's name
C6_Witness ==
    /\ Returned /\ last.tier = "key" /\ ~last.created
    /\ "name" \in DOMAIN last.data
    /\ rows[last.inst].name # last.data.name
    /\ attrs[last.inst].name = last.data.name
    /\ \E x \in DOMAIN rows : x # last.inst /\ rows[x].name = last.data.name

\* C7: a reconcile of an identifier whose class is not registered ends in
\* the KeyError of the lookup, queries nothing, constructs and stages
\* nothing and leaves the cache as it was, buckets included.
C7_UnknownType ==
    [][(Step /\ last'.op = "reconcile" /\ last'.class_name \notin models)
         => /\ last'.outcome = "KeyError"
            /\ ~last'.queried /\ ~last'.created /\ last'.inst = None
            /\ UNCHANGED <<model_instances, session, staged, attrs, rows, ctor>>]_vars

\* the KeyError was raised on an engine that has cached instances
C7_Witness ==
    /\ last.op = "reconcile" /\ last.class_name = "Ghost"
    /\ last.outcome = "KeyError"
    /\ CacheEntries(model_instances) # {}
    /\ staged # {}

\* C8: when the filter of the query selects more than one committed
\* Instance, reconcile ends in the error of the query: it returns no
\* Instance, constructs none, and the entries of the cache and the staged
\* Instances are as before.
C8_AmbiguousMatch ==
    [][(/\ Step /\ last'.op = "reconcile" /\ last'.queried
        /\ Cardinality({x \in DOMAIN rows :
                           RowAgrees(x, last'.data, last'.filter)}) > 1)
         => /\ last'.outcome = "MultipleResultsFound"
            /\ last'.inst = None /\ ~last'.created
            /\ CacheEntries(model_instances') = CacheEntries(model_instances)
            /\ UNCHANGED <<staged, ctor, rows>>]_vars

\* the query found several committed rows that agree with the record
C8_Witness ==
    /\ last.op = "reconcile" /\ last.outcome = "MultipleResultsFound"
    /\ last.queried
    /\ Cardinality({x \in DOMAIN rows : RowAgrees(x, last.data, last.filter)}) > 1

\* the step is the first reconcile on a new engine, and it repeats the
\* identifier and the record (not empty, column values only) of the
\* reconcile that returned right before the commit of the engine before
Reload ==
    /\ Step /\ last.op = "init" /\ last'.op = "reconcile"
    /\ last'.class_name = last.class_name
    /\ last'.key = last.key
    /\ last'.data = last.data
    /\ last.inst # None
    /\ last.data # NoData
    /\ DOMAIN last.data \subseteq Columns

\* C9 as written: after reconcile(I, R) and commit, reconcile(I, R) on a new
\* engine returns created = FALSE and the committed Instance.
C9_Original ==
    [][Reload => /\ last'.outcome = "ok" /\ ~last'.created
                 /\ last'.inst = last.inst]_vars

\* C9 amended: ... provided no other committed Instance agrees with R on the
\* attributes of the filter that R gives.
C9_Reapplication ==
    [][(/\ Reload
        /\ \A x \in DOMAIN rows \ {last.inst} :
              ~RowAgrees(x, last'.data, last'.filter))
         => /\ last'.outcome = "ok" /\ ~last'.created
            /\ last'.inst = last.inst
            /\ last'.queried]_vars

\* the record was loaded again on a new engine and found its Instance among
\* several committed ones
C9_Witness ==
    /\ Returned /\ last.repeats = "reload"
    /\ ~last.created /\ last.queried
    /\ last.data # NoData
    /\ last.inst \in DOMAIN rows
    /\ Cardinality(DOMAIN rows) > 1

\* C10: a reconcile, however it ends, leaves the database as it was; a
\* commit that returns leaves every staged Instance in the database with the
\* values it has in memory.
C10_NeverCommits ==
    [][/\ (Step /\ last'.op = "reconcile") => rows' = rows
       /\ (Step /\ last'.op = "commit" /\ last'.outcome = "ok")
            => \A x \in staged : x \in DOMAIN rows' /\ rows'[x] = attrs[x]]_vars

\* a created Instance is staged and in no row; and, elsewhere, a commit wrote
\* one
C10_Witness ==
    /\ Returned /\ last.created /\ last.queried
    /\ last.inst \in staged
    /\ last.inst \notin DOMAIN rows
    /\ DOMAIN rows # {}

\* ---- C12 -------------------------------------------------------------
\* C12: after every reconcile that returns, created or matched, the
\* returned Instance is staged in the session, the cache maps the identifier
\* to exactly that Instance, and every attribute of the record has the
\* record's value on it.
C12_Postcondition ==
    Returned =>
        /\ last.inst \in Insts
        /\ last.inst \in staged /\ last.inst \in session
        /\ CacheGet(model_instances, last.class_name, last.key) = last.inst
        /\ Has(last.inst, last.data)

\* a reconcile matched a committed row by a query and wrote two attributes
C12_Witness ==
    /\ Returned /\ ~last.created /\ last.queried
    /\ Cardinality(DOMAIN last.data) >= 2
    /\ last.inst \in staged
    /\ Has(last.inst, last.data)

C14_CacheInvariant ==
    [][Step =>
         /\ \A e \in CacheEntries(model_instances') :
               first'[<<e[1], e[2]>>] = e[3]
         /\ last'.op = "reconcile" =>
               \A i \in Ids :
                  i # <<last'.class_name, last'.key>> =>
                     CacheGet(model_instances', i[1], i[2])
                        = CacheGet(model_instances, i[1], i[2])
         /\ last'.op = "commit" => model_instances' = model_instances]_vars

\* a reconcile raised while another identifier had its entry
C14_Witness ==
    /\ last.op = "reconcile" /\ last.outcome # "ok"
    /\ \E e \in CacheEntries(model_instances) :
          /\ <<e[1], e[2]>> # LastId
          /\ first[<<e[1], e[2]>>] = e[3]
    /\ CacheGet(model_instances, last.class_name, last.key) = None

\* ---- C15 -------------------------------------------------------------
\* C15 as written: a find that reaches the fallback tier does not fail on
\* an attribute value (a null is filtered as null, also for a relationship
\* attribute), and the filter it queries with has exactly the attributes
\* whose value is null, a primitive, or an instance with a primary key.
C15_Original ==
    (last.op = "reconcile" /\ last.tier = "fallback") =>
        /\ last.outcome # "AttributeError"
        /\ last.queried =>
              last.filter =
                 {a \in DOMAIN last.data :
                     \/ last.data[a] = None
                     \/ IsPrimitive(last.data[a])
                     \/ /\ a \in get_relationships(last.class_name)
                        /\ HasMapper(last.data[a]) /\ HasPk(last.data[a])}

\* ---- C16 -------------------------------------------------------------
\* C16: when the cache does not serve the identifier and no attribute of the
\* record qualifies for a filter (no primary-key or unique column, no null,
\* no primitive, no instance), find returns None without a query and
\* reconcile constructs a new Instance, created = TRUE.
C16_EmptyFilter ==
    (/\ last.op = "reconcile" /\ last.class_name \in models
     /\ last.tier # "cache"
     /\ \A a \in DOMAIN last.data :
           /\ a \notin UniqueColumns
           /\ last.data[a] # None
           /\ ~IsPrimitive(last.data[a])
           /\ ~HasMapper(last.data[a]))
    => /\ last.outcome = "ok" /\ ~last.queried
       /\ last.created
       /\ last.inst \in staged
       /\ ctor[LastId] = 1

\* a record with nothing but a collection was reconciled over a database
\* that has rows, and a new Instance was made
C16_Witness ==
    /\ Returned /\ last.created /\ ~last.queried
    /\ last.data \in ListRecords
    /\ DOMAIN rows # {}
    /\ last.cachedBefore = None

\* ---- C20 -------------------------------------------------------------
\* the step reconciles, for an identifier not in the cache, the record that
\* the last reconcile (of another identifier of the same type) was created
\* from
OtherIdSameData ==
    /\ Step
    /\ last'.op = "reconcile"
    /\ last'.class_name = last.class_name /\ last'.key # last.key
    /\ last'.data = last.data
    /\ last.outcome = "ok" /\ last.created
    /\ last'.cachedBefore = None

C20_WitnessCommitted ==
    /\ Returned /\ ~last.created /\ last.queried
    /\ last.cachedBefore = None
    /\ \E k \in Keys : k # last.key /\ first[<<last.class_name, k>>] = last.inst

\* ---- C11, C18, C19: maybe_convert_values --------------------------------
\* the maybe_convert_values call has ended
Coerced == coercion.outcome \notin {"none", "pending"}

SameValue(x, y) == x.t = y.t /\ x.v = y.v

\* two dicts with the same items in the same order
SameRecord(d, e) ==
    /\ Len(d) = Len(e)
    /\ \A i \in 1..Len(d) : d[i][1] = e[i][1] /\ SameValue(d[i][2], e[i][2])

KeySet(d) == {d[i][1] : i \in 1..Len(d)}

\* C11: whatever the record and the kinds of its attributes, after
\* maybe_convert_values the caller's record is what was passed in, and the
\* mapping returned is another one with exactly the keys of the record.
C11_NoMutation ==
    Coerced =>
        /\ SameRecord(coercion.data, coercion.given)
        /\ coercion.outcome = "ok" =>
              /\ Len(coercion.rv) = Len(coercion.given)
              /\ KeySet(coercion.rv) = KeySet(coercion.given)

\* a record of two attributes was converted: the mapping returned differs
\* from the record, which is as it was
C11_Witness ==
    /\ coercion.outcome = "ok"
    /\ Len(coercion.given) >= 2
    /\ \E i \in 1..Len(coercion.rv) : coercion.rv[i][2].t # coercion.given[i][2].t
    /\ SameRecord(coercion.data, coercion.given)

\* the Instances the cache holds for a reference
Resolved(raw) ==
    IF raw.t = "id" THEN <<CacheGet(model_instances, raw.v[1], raw.v[2])>>
    ELSE [i \in 1..Len(raw.v) |->
             CacheGet(model_instances, raw.v[i][1], raw.v[i][2])]

Malformed(col_name, raw) ==
    /\ raw.t = "str"
    /\ \/ col_name = "ttl" /\ Len(Split(raw.v, " ")) # 2
       \/ col_name = "at" /\ \E j \in 1..Len(Split(raw.v, ":")) :
                                  ~IsInt(Split(raw.v, ":")[j])
       \/ col_name = "born" /\ date_factory(raw).err # ""
       \/ col_name = "seen" /\ datetime_factory(raw).err # ""

\* C19: when an attribute of the record cannot be converted,
\* maybe_convert_values ends in an error, returns no mapping, and leaves the
\* record, the cache and the database as they were.
C19_NoSilentDefault ==
    [][(/\ coercion.outcome = "pending" /\ coercion'.outcome # "pending"
        /\ coercion.class_name \in models
        /\ \E i \in 1..Len(coercion.given) :
              Malformed(coercion.given[i][1], coercion.given[i][2]))
       => /\ coercion'.outcome \in {"ValueError", "TypeError", "AttributeError"}
          /\ coercion'.rv = <<>>
          /\ SameRecord(coercion'.data, coercion.given)
          /\ UNCHANGED <<model_instances, session, staged, attrs, rows>>]_vars

\* the first attribute was converted, the second one is malformed: the call
\* raised and nothing of the first is returned
C19_Witness ==
    /\ coercion.outcome = "ValueError"
    /\ Len(coercion.given) = 2
    /\ coercion.given[1][1] = "born"
    /\ date_factory(coercion.given[1][2]).err = ""
    /\ Malformed(coercion.given[2][1], coercion.given[2][2])
    /\ coercion.rv = <<>>
    /\ CacheEntries(model_instances) # {}

\* ---- C17 -------------------------------------------------------------
\* C17 as written: the relationship set of a (factory, class name) pair is
\* computed at most once, however many pairs are in use; no entry is
\* dropped.
C17_Original == memo.runs <= 1

====
